---- MODULE Spec2Model ----
(***************************************************************************)
(* The SPICE (dummy) SDL video backend, src/video/spice/SDL_spicevideo.c.  *)
(*                                                                         *)
(* The heap is a sequence of blocks; a pointer is an index into it and     *)
(* NULL is 0.  Every SDL_malloc that succeeds appends a block, so a        *)
(* pointer names one allocation for ever: a pointer to a block that has    *)
(* been freed is dangling even where a C allocator would hand the same     *)
(* address out again.  The dispatcher (SDL_video.c) is the environment: it *)
(* owns the screen surface and the pixel format, and it calls the entry    *)
(* points in its lifecycle order.                                          *)
(***************************************************************************)
EXTENDS Integers, Sequences, FiniteSets

VARIABLES
    heap,     \* every block SDL_malloc ever returned, in allocation order
    device,   \* the SDL_VideoDevice* the dispatcher holds (`this`), or NULL
    dev,      \* the fields of *device
    hidden,   \* the fields of *device->hidden (struct SDL_PrivateVideoData)
    screen,   \* the fields of *this->screen, the surface passed as `current`
    vformat,  \* the SDL_PixelFormat the dispatcher passes to VideoInit
    phase,    \* where the dispatcher is in the backend's lifecycle
    updPc,    \* "in" while a SPICE_UpdateRects call has been entered, not left
    lastOp,   \* the entry point called last
    ret,      \* its return value
    err,      \* the message last given to SDL_SetError / SDL_OutOfMemory
    access,   \* the blocks whose bytes the last call read or wrote
    modes,    \* "none": no SetVideoMode yet; "ok": all succeeded; "failed"
    crashed   \* the allocator aborted the process on an invalid free

vars == <<heap, device, dev, hidden, screen, vformat, phase, updPc, lastOp,
          ret, err, access, modes, crashed>>

----------------------------------------------------------------------------
(* Bounds of the model *)

MaxAlloc == 4   \* blocks SDL_malloc may hand out in one run
MaxDim == 2     \* widths and heights are 1..MaxDim

Dims == 1..MaxDim
\* bpp/8 truncates: 4 gives 0 bytes per pixel
Depths == {4, 8, 16}
\* what SDL_malloc's uninitialised memory holds: not zeros, so that clearing
\* a buffer shows
Garbage == {205}

----------------------------------------------------------------------------
(* Values *)

NULL == 0

\* Uint32 flag words are sets of bit positions, so that & is intersection
SDL_FULLSCREEN == {31}
SDL_HWSURFACE == {0}
FlagWords == {{}, SDL_HWSURFACE, SDL_FULLSCREEN \cup SDL_HWSURFACE}

BitAnd(a, b) == a \cap b

ErrNone == "no error"
ErrOutOfMemory == "Out of memory"
ErrBuffer == "Couldn't allocate buffer for requested mode"
ErrFormat == "Couldn't allocate new pixel format for requested mode"

RetVoid == [t |-> "void", v |-> 0]
RetInt(n) == [t |-> "int", v |-> n]
RetPtr(kind, p) == [t |-> kind, v |-> p]

----------------------------------------------------------------------------
(* The allocator *)

Block(kind, n, fill) ==
    [kind |-> kind, live |-> TRUE, frees |-> 0, bytes |-> [i \in 1..n |-> fill]]

\* SDL_malloc(n) succeeding: the new block's pointer is Len(h) + 1
Malloc(h, kind, n, fill) == Append(h, Block(kind, n, fill))

IsLive(h, p) == p \in DOMAIN h /\ h[p].live

\* SDL_free(p), p not NULL.  The contents of a freed block are gone.
Free(h, p) ==
    [h EXCEPT ![p] = [@ EXCEPT !.live = FALSE, !.frees = @ + 1, !.bytes = <<>>]]

\* SDL_memset(p, c, n)
Memset(h, p, c, n) ==
    [h EXCEPT ![p].bytes = [i \in DOMAIN @ |-> IF i <= n THEN c ELSE @[i]]]

\* SDL_free of a block that is not allocated is undefined: the allocator
\* either aborts the process or carries on
FreeOutcomes(h, p) == IF p = NULL \/ IsLive(h, p) THEN {FALSE} ELSE {FALSE, TRUE}

LiveBlocks(h, kind) == {b \in DOMAIN h : h[b].kind = kind /\ h[b].live}

----------------------------------------------------------------------------
(* SPICE_CreateDevice and SPICE_DeleteDevice *)

ZeroHidden == [buffer |-> NULL, w |-> 0, h |-> 0]

FnNames ==
    {"VideoInit", "ListModes", "SetVideoMode", "CreateYUVOverlay", "SetColors",
     "UpdateRects", "VideoQuit", "AllocHWSurface", "CheckHWBlit", "FillHWRect",
     "SetHWColorKey", "SetHWAlpha", "LockHWSurface", "UnlockHWSurface",
     "FlipHWSurface", "FreeHWSurface", "SetCaption", "SetIcon",
     "IconifyWindow", "GrabInput", "GetWMInfo", "InitOSKeymap", "PumpEvents",
     "free"}

\* SDL_memset(device, 0, sizeof *device)
ZeroDevice == [hidden |-> NULL, fn |-> [f \in FnNames |-> "NULL"]]

SpiceFns ==
    [f \in FnNames |->
        CASE f = "VideoInit" -> "SPICE_VideoInit"
          [] f = "ListModes" -> "SPICE_ListModes"
          [] f = "SetVideoMode" -> "SPICE_SetVideoMode"
          [] f = "SetColors" -> "SPICE_SetColors"
          [] f = "UpdateRects" -> "SPICE_UpdateRects"
          [] f = "VideoQuit" -> "SPICE_VideoQuit"
          [] f = "AllocHWSurface" -> "SPICE_AllocHWSurface"
          [] f = "LockHWSurface" -> "SPICE_LockHWSurface"
          [] f = "UnlockHWSurface" -> "SPICE_UnlockHWSurface"
          [] f = "FreeHWSurface" -> "SPICE_FreeHWSurface"
          [] f = "InitOSKeymap" -> "SPICE_InitOSKeymap"
          [] f = "PumpEvents" -> "SPICE_PumpEvents"
          [] f = "free" -> "SPICE_DeleteDevice"
          [] OTHER -> "NULL"]

\* the heap when the allocation of the private state has failed
CreateDeviceLeakMutant(h, d) == h
CreateDeviceCleanup(h, d) == IF d # NULL THEN Free(h, d) ELSE h

SPICE_CreateDevice ==
    /\ phase = "none"
    /\ ~crashed
    /\ \E devindex \in {0, 1}, okDevice \in BOOLEAN, okHidden \in BOOLEAN :
        LET h1 == IF okDevice THEN Malloc(heap, "device", 0, 0) ELSE heap
            d == IF okDevice THEN Len(h1) ELSE NULL
            h2 == IF okDevice /\ okHidden
                    THEN Malloc(h1, "hidden", 0, 0) ELSE h1
            hid == IF okDevice /\ okHidden THEN Len(h2) ELSE NULL
        IN  /\ Len(h2) <= MaxAlloc
            /\ lastOp' = "CreateDevice"
            /\ access' = {}
            /\ IF d = NULL \/ hid = NULL
                 THEN /\ err' = ErrOutOfMemory
                      /\ heap' = CreateDeviceCleanup(h2, d)
                      /\ ret' = RetPtr("device", NULL)
                      /\ UNCHANGED <<device, dev, hidden, phase>>
                 ELSE /\ heap' = h2
                      /\ device' = d
                      /\ dev' = [hidden |-> hid, fn |-> SpiceFns]
                      /\ hidden' = ZeroHidden
                      /\ ret' = RetPtr("device", d)
                      /\ phase' = "created"
                      /\ UNCHANGED err
    /\ UNCHANGED <<screen, vformat, updPc, modes, crashed>>

DeleteDeviceLeakMutant(h, d, hid) == Free(h, d)
DeleteDeviceHeap(h, d, hid) == Free(Free(h, hid), d)

SPICE_DeleteDevice ==
    /\ phase = "quit"
    /\ updPc = "idle"
    /\ ~crashed
    /\ heap' = DeleteDeviceHeap(heap, device, dev.hidden)
    /\ \E abort \in FreeOutcomes(heap, dev.hidden) \cup FreeOutcomes(heap, device) :
        crashed' = abort
    /\ phase' = "deleted"
    /\ lastOp' = "DeleteDevice"
    /\ ret' = RetVoid
    /\ access' = {}
    /\ UNCHANGED <<device, dev, hidden, screen, vformat, updPc, err, modes>>

----------------------------------------------------------------------------
(* SPICE_VideoInit *)

SPICE_VideoInit ==
    /\ phase = "created"
    /\ ~crashed
    /\ vformat' = [vformat EXCEPT !.BitsPerPixel = 8, !.BytesPerPixel = 1]
    /\ phase' = "inited"
    /\ lastOp' = "VideoInit"
    /\ ret' = RetInt(0)
    /\ access' = {}
    /\ UNCHANGED <<heap, device, dev, hidden, screen, updPc, err, modes, crashed>>

----------------------------------------------------------------------------
(* SPICE_SetVideoMode *)

ZeroSurface == [flags |-> {}, w |-> 0, h |-> 0, pitch |-> 0, pixels |-> NULL]

\* width * height * (bpp / 8)
BufSize(width, height, bpp) == width * height * (bpp \div 8)

\* if ( this->hidden->buffer ) SDL_free( this->hidden->buffer );
ReleaseOldKeepMutant(h, hid) == h
ReleaseOld(h, hid) == IF hid.buffer # NULL THEN Free(h, hid.buffer) ELSE h

\* the failure branch of SDL_ReallocFormat: free the new buffer, null it
FormatFailDanglingMutant(h, hid) ==
    [heap |-> Free(h, hid.buffer), hidden |-> hid]
FormatFail(h, hid) ==
    [heap |-> Free(h, hid.buffer), hidden |-> [hid EXCEPT !.buffer = NULL]]

\* SDL_memset(this->hidden->buffer, 0, width * height * (bpp / 8))
ClearBuffer(h, p, n) == Memset(h, p, 0, n)

\* "Set up the new mode framebuffer"
NewSurfaceAllFlagsMutant(cur, buf, width, height, bpp, flags) ==
    [cur EXCEPT !.flags = flags, !.w = width, !.h = height,
                !.pitch = width * (bpp \div 8), !.pixels = buf]
NewSurface(cur, buf, width, height, bpp, flags) ==
    [cur EXCEPT !.flags = BitAnd(flags, SDL_FULLSCREEN), !.w = width,
                !.h = height, !.pitch = width * (bpp \div 8), !.pixels = buf]

NewHidden(hid, width, height) == [hid EXCEPT !.w = width, !.h = height]

\* SPICE_SetVideoMode(this, current, width, height, bpp, flags) with current =
\* this->screen, when SDL_malloc and SDL_ReallocFormat both succeed
SetVideoModeDone(width, height, bpp, flags) ==
    LET n == BufSize(width, height, bpp)
        new == Len(heap) + 1
    IN  /\ Len(heap) < MaxAlloc
        /\ ret' = RetPtr("surface", 1)
        /\ hidden' = NewHidden([hidden EXCEPT !.buffer = new], width, height)
        /\ screen' = NewSurface(screen, new, width, height, bpp, flags)
        /\ \E fill \in Garbage :
              heap' = ClearBuffer(Malloc(ReleaseOld(heap, hidden), "buffer", n,
                                         fill), new, n)
        /\ access' = {new}
        /\ modes' = (IF modes = "failed" THEN "failed" ELSE "ok")
        /\ UNCHANGED err

\* the same call when SDL_malloc returns NULL
SetVideoModeNoBuffer ==
    /\ ret' = RetPtr("surface", NULL)
    /\ err' = ErrBuffer
    /\ hidden' = [hidden EXCEPT !.buffer = NULL]
    /\ heap' = ReleaseOld(heap, hidden)
    /\ access' = {}
    /\ modes' = "failed"
    /\ UNCHANGED screen

\* the same call when SDL_malloc succeeds and SDL_ReallocFormat returns NULL
SetVideoModeNoFormat(width, height, bpp) ==
    LET n == BufSize(width, height, bpp)
        new == Len(heap) + 1
        h3(fill) == ClearBuffer(Malloc(ReleaseOld(heap, hidden), "buffer", n,
                                       fill), new, n)
        hid2 == [hidden EXCEPT !.buffer = new]
    IN  /\ Len(heap) < MaxAlloc
        /\ ret' = RetPtr("surface", NULL)
        /\ err' = ErrFormat
        /\ \E fill \in Garbage :
              /\ hidden' = FormatFail(h3(fill), hid2).hidden
              /\ heap' = FormatFail(h3(fill), hid2).heap
        /\ access' = {new}
        /\ modes' = "failed"
        /\ UNCHANGED screen

SetVideoModeCall(width, height, bpp, flags) ==
    /\ lastOp' = "SetVideoMode"
    /\ \/ SetVideoModeNoBuffer
       \/ SetVideoModeNoFormat(width, height, bpp)
       \/ SetVideoModeDone(width, height, bpp, flags)
    /\ \E abort \in FreeOutcomes(heap, hidden.buffer) : crashed' = abort
    /\ UNCHANGED <<device, dev, vformat, phase, updPc>>

SPICE_SetVideoMode ==
    /\ phase = "inited"
    /\ updPc = "idle"
    /\ ~crashed
    /\ \E width \in Dims, height \in Dims, bpp \in Depths, flags \in FlagWords :
        SetVideoModeCall(width, height, bpp, flags)

----------------------------------------------------------------------------
(* The stubs *)

StubReady == phase \in {"inited", "quit"} /\ updPc = "idle" /\ ~crashed

\* what a stub leaves alone: everything but the record of the call
StubFrame ==
    UNCHANGED <<heap, device, dev, hidden, screen, vformat, phase, updPc, err,
                modes, crashed>>

\* return (SDL_Rect **) -1;
ListModesRet(bpp, flags) == -1

SPICE_ListModes ==
    /\ StubReady
    /\ \E bpp \in Depths, flags \in FlagWords :
        ret' = RetPtr("rects", ListModesRet(bpp, flags))
    /\ lastOp' = "ListModes"
    /\ access' = {}
    /\ StubFrame

AllocHWSurfaceRet(surface) == -1

SPICE_AllocHWSurface ==
    /\ StubReady
    /\ ret' = RetInt(AllocHWSurfaceRet("screen"))
    /\ lastOp' = "AllocHWSurface"
    /\ access' = {}
    /\ StubFrame

SPICE_FreeHWSurface ==
    /\ StubReady
    /\ ret' = RetVoid
    /\ lastOp' = "FreeHWSurface"
    /\ access' = {}
    /\ StubFrame

LockHWSurfaceFailMutant(surface) == -1
LockHWSurfaceRet(surface) == 0

SPICE_LockHWSurface ==
    /\ StubReady
    /\ ret' = RetInt(LockHWSurfaceRet("screen"))
    /\ lastOp' = "LockHWSurface"
    /\ access' = {}
    /\ StubFrame

SPICE_UnlockHWSurface ==
    /\ StubReady
    /\ ret' = RetVoid
    /\ lastOp' = "UnlockHWSurface"
    /\ access' = {}
    /\ StubFrame

SetColorsRet(firstcolor, ncolors) == 1

SPICE_SetColors ==
    /\ StubReady
    /\ \E firstcolor \in {0, 16}, ncolors \in {1, 256} :
        ret' = RetInt(SetColorsRet(firstcolor, ncolors))
    /\ lastOp' = "SetColors"
    /\ access' = {}
    /\ StubFrame

\* SPICE_UpdateRects is entered and left in two steps, so that SPICE_VideoQuit
\* can run in the middle of it.  Its body is empty.
UpdateRectsDrawMutant(h, scr) ==
    [heap |-> IF scr.pixels # NULL THEN Memset(h, scr.pixels, 255, 1) ELSE h,
     access |-> {scr.pixels} \ {NULL}]
UpdateRectsBody(h, scr) == [heap |-> h, access |-> {}]

SPICE_UpdateRectsEnter ==
    /\ phase = "inited"
    /\ updPc = "idle"
    /\ ~crashed
    /\ updPc' = "in"
    /\ lastOp' = "UpdateRects"
    /\ access' = {}
    /\ UNCHANGED <<heap, device, dev, hidden, screen, vformat, phase, ret, err,
                   modes, crashed>>

SPICE_UpdateRectsReturn ==
    /\ updPc = "in"
    /\ ~crashed
    /\ heap' = UpdateRectsBody(heap, screen).heap
    /\ access' = UpdateRectsBody(heap, screen).access
    /\ updPc' = "idle"
    /\ lastOp' = "UpdateRects"
    /\ ret' = RetVoid
    /\ UNCHANGED <<device, dev, hidden, screen, vformat, phase, err,
                   modes, crashed>>

----------------------------------------------------------------------------
(* SPICE_VideoQuit *)

VideoQuitHeap(h, scr) == IF scr.pixels # NULL THEN Free(h, scr.pixels) ELSE h

VideoQuitKeepPointerMutant(scr) == scr
VideoQuitScreen(scr) ==
    IF scr.pixels # NULL THEN [scr EXCEPT !.pixels = NULL] ELSE scr

\* "If we are terminated, this could be called in the middle of another SDL
\* video routine -- notably UpdateRects": updPc is not looked at.
SPICE_VideoQuit ==
    /\ phase \in {"inited", "quit"}
    /\ ~crashed
    /\ heap' = VideoQuitHeap(heap, screen)
    /\ screen' = VideoQuitScreen(screen)
    /\ \E abort \in FreeOutcomes(heap, screen.pixels) : crashed' = abort
    /\ phase' = "quit"
    /\ lastOp' = "VideoQuit"
    /\ ret' = RetVoid
    /\ access' = {}
    /\ UNCHANGED <<device, dev, hidden, vformat, updPc, err, modes>>

----------------------------------------------------------------------------
(* The dispatcher's lifecycle: createDevice, init, any number of mode sets
   and of stub calls, quit (possibly in the middle of an UpdateRects, and
   possibly more than once), deleteDevice. *)

Init ==
    /\ heap = <<>>
    /\ device = NULL
    /\ dev = ZeroDevice
    /\ hidden = ZeroHidden
    /\ screen = ZeroSurface
    /\ vformat = [BitsPerPixel |-> 0, BytesPerPixel |-> 0]
    /\ phase = "none"
    /\ updPc = "idle"
    /\ lastOp = "none"
    /\ ret = RetVoid
    /\ err = ErrNone
    /\ access = {}
    /\ modes = "none"
    /\ crashed = FALSE

Next ==
    \/ SPICE_CreateDevice
    \/ SPICE_VideoInit
    \/ SPICE_ListModes
    \/ SPICE_SetVideoMode
    \/ SPICE_AllocHWSurface
    \/ SPICE_FreeHWSurface
    \/ SPICE_LockHWSurface
    \/ SPICE_UnlockHWSurface
    \/ SPICE_UpdateRectsEnter
    \/ SPICE_UpdateRectsReturn
    \/ SPICE_SetColors
    \/ SPICE_VideoQuit
    \/ SPICE_DeleteDevice

Spec == Init /\ [][Next]_vars

----------------------------------------------------------------------------
(* Properties *)

BufferBlocks == {b \in DOMAIN heap : heap[b].kind = "buffer"}

\* the fields of an SDL_Surface this backend writes
SameSurface(a, b) ==
    /\ a.flags = b.flags
    /\ a.w = b.w
    /\ a.h = b.h
    /\ a.pitch = b.pitch
    /\ a.pixels = b.pixels

\* C1: a SPICE_SetVideoMode that fails, at the buffer allocation or at the
\* pixel-format reallocation, returns NULL with its error message set, leaves
\* hidden->buffer NULL and leaves flags, w, h, pitch and pixels of the
\* surface as they were, whether or not a framebuffer existed before.
C1_FailedModeSet ==
    [][(lastOp' = "SetVideoMode" /\ ret'.v = NULL) =>
          /\ ret' = RetPtr("surface", NULL)
          /\ err' \in {ErrBuffer, ErrFormat}
          /\ hidden'.buffer = NULL
          /\ SameSurface(screen', screen)]_vars

\* a format reallocation has failed on a handle that had a framebuffer
C1_Witness ==
    /\ lastOp = "SetVideoMode"
    /\ ret = RetPtr("surface", NULL)
    /\ err = ErrFormat
    /\ hidden.buffer = NULL
    /\ screen.pixels # NULL
    /\ Cardinality(BufferBlocks) = 2

\* C2: at most one framebuffer is allocated at any time, and after every
\* successful SPICE_SetVideoMode exactly one is, the one hidden->buffer
\* refers to: the call released the previous one.
C2_OneFramebuffer ==
    /\ Cardinality(LiveBlocks(heap, "buffer")) <= 1
    /\ (lastOp = "SetVideoMode" /\ ret.v # NULL) =>
          LiveBlocks(heap, "buffer") = {hidden.buffer}

\* a second mode has been set over a first one
C2_Witness ==
    /\ lastOp = "SetVideoMode"
    /\ ret.v # NULL
    /\ modes = "ok"
    /\ Cardinality(BufferBlocks) = 2
    /\ IsLive(heap, hidden.buffer)

\* C3: after a successful SPICE_SetVideoMode(current, width, height, bpp,
\* flags), current->pixels and hidden->buffer are the same newly allocated
\* block of width * height * (bpp/8) zero bytes, current->flags is flags
\* masked to the fullscreen bit, width and height are in the handle and in
\* the surface, current->pitch is width * (bpp/8), and current is returned.
C3_SuccessfulModeSet ==
    [][(lastOp' = "SetVideoMode" /\ ret'.v # NULL) =>
          \A width \in Dims, height \in Dims, bpp \in Depths, flags \in FlagWords :
             SetVideoModeDone(width, height, bpp, flags) =>
                /\ ret' = RetPtr("surface", 1)
                /\ screen'.pixels = hidden'.buffer
                /\ hidden'.buffer \notin DOMAIN heap
                /\ IsLive(heap', hidden'.buffer)
                /\ heap'[hidden'.buffer].frees = 0
                /\ Len(heap'[hidden'.buffer].bytes)
                      = width * height * (bpp \div 8)
                /\ \A i \in DOMAIN heap'[hidden'.buffer].bytes :
                      heap'[hidden'.buffer].bytes[i] = 0
                /\ screen'.flags = flags \cap {31}
                /\ hidden'.w = width /\ screen'.w = width
                /\ hidden'.h = height /\ screen'.h = height
                /\ screen'.pitch = width * (bpp \div 8)]_vars

\* a fullscreen 2x1 mode at 16 bits per pixel has been set
C3_Witness ==
    /\ lastOp = "SetVideoMode"
    /\ ret = RetPtr("surface", 1)
    /\ screen.flags = SDL_FULLSCREEN
    /\ screen.w = 2 /\ screen.h = 1 /\ screen.pitch = 4
    /\ heap[screen.pixels].bytes = <<0, 0, 0, 0>>

\* C4: in a run in which every SPICE_SetVideoMode succeeded (and there was
\* one), the pixel pointer is NULL after SPICE_VideoQuit, and after
\* SPICE_DeleteDevice every block the backend allocated has been freed, once.
C4_Lifecycle ==
    /\ (phase \in {"quit", "deleted"} /\ modes = "ok") => screen.pixels = NULL
    /\ (phase = "deleted" /\ modes = "ok") =>
          /\ ~crashed
          /\ \A b \in DOMAIN heap : ~heap[b].live /\ heap[b].frees = 1

\* a run with two successful mode sets has ended
C4_Witness ==
    /\ phase = "deleted"
    /\ modes = "ok"
    /\ Cardinality(BufferBlocks) = 2

\* C5: SPICE_VideoQuit with a pixel pointer frees that block once and nulls
\* the pointer; with a NULL pixel pointer it frees nothing, changes nothing
\* and does not fail.
C5_QuitIdempotent ==
    [][lastOp' = "VideoQuit" =>
          IF screen.pixels # NULL
            THEN /\ screen'.pixels = NULL
                 /\ DOMAIN heap' = DOMAIN heap
                 /\ ~heap'[screen.pixels].live
                 /\ heap'[screen.pixels].frees = heap[screen.pixels].frees + 1
                 /\ \A b \in DOMAIN heap \ {screen.pixels} : heap'[b] = heap[b]
            ELSE /\ UNCHANGED <<heap, device, dev, hidden, screen, vformat, err>>
                 /\ ~crashed'
                 /\ ret' = RetVoid]_vars

\* the device has been quit without any mode ever set: nothing to free
C5_Witness ==
    /\ lastOp = "VideoQuit"
    /\ modes = "none"
    /\ screen.pixels = NULL
    /\ \A b \in DOMAIN heap : heap[b].frees = 0 \/ b < device

\* C6: SPICE_UpdateRects touches no block and changes nothing, and a
\* SPICE_VideoQuit that runs in the middle of it ends as one that runs
\* outside it does: pixel pointer NULL, the block it referred to freed once
\* more, nothing else freed.
C6_QuitDuringUpdate ==
    [][/\ lastOp' = "UpdateRects" =>
             /\ access' = {}
             /\ UNCHANGED <<heap, device, dev, hidden, screen>>
       /\ (updPc = "in" /\ lastOp' = "VideoQuit") =>
             /\ screen'.pixels = NULL
             /\ \A b \in DOMAIN heap :
                   heap'[b].frees =
                      heap[b].frees + (IF b = screen.pixels THEN 1 ELSE 0)
             /\ access' = {}
             /\ updPc' = "in"]_vars

\* the device was quit inside an UpdateRects that has not returned yet
C6_Witness ==
    /\ updPc = "in"
    /\ lastOp = "VideoQuit"
    /\ screen.pixels = NULL
    /\ hidden.buffer # NULL
    /\ heap[hidden.buffer].frees = 1

StubOps ==
    {"ListModes", "AllocHWSurface", "FreeHWSurface", "LockHWSurface",
     "UnlockHWSurface", "UpdateRects", "SetColors"}

\* C7: ListModes returns -1, AllocHWSurface -1, LockHWSurface 0 and SetColors
\* 1, and no stub changes hidden->buffer, the handle's dimensions or the
\* surface.
C7_Stubs ==
    [][lastOp' \in StubOps =>
          /\ UNCHANGED <<heap, device, dev, hidden, screen>>
          /\ lastOp' = "ListModes" => ret' = RetPtr("rects", -1)
          /\ lastOp' = "AllocHWSurface" => ret' = RetInt(-1)
          /\ lastOp' = "LockHWSurface" => ret' = RetInt(0)
          /\ lastOp' = "SetColors" => ret' = RetInt(1)]_vars

\* the surface has been locked while a mode is set
C7_Witness ==
    /\ lastOp = "LockHWSurface"
    /\ ret = RetInt(0)
    /\ screen.pixels # NULL
    /\ IsLive(heap, screen.pixels)

BackendFns ==
    {"VideoInit", "ListModes", "SetVideoMode", "SetColors", "UpdateRects",
     "VideoQuit", "AllocHWSurface", "LockHWSurface", "UnlockHWSurface",
     "FreeHWSurface", "free"}

\* C8: SPICE_CreateDevice returns a handle with zeroed private state and the
\* function table set, or signals out-of-memory, returns 0 and leaves no
\* block allocated that was not allocated before.
C8_CreateDevice ==
    [][lastOp' = "CreateDevice" =>
          \/ /\ ret'.v # NULL
             /\ device' = ret'.v
             /\ IsLive(heap', device')
             /\ IsLive(heap', dev'.hidden)
             /\ dev'.hidden # device'
             /\ {device', dev'.hidden} \cap DOMAIN heap = {}
             /\ hidden'.buffer = NULL /\ hidden'.w = 0 /\ hidden'.h = 0
             /\ \A f \in BackendFns : dev'.fn[f] # "NULL"
          \/ /\ ret' = RetPtr("device", NULL)
             /\ err' = ErrOutOfMemory
             /\ \A b \in DOMAIN heap' : heap'[b].live => IsLive(heap, b)
             /\ UNCHANGED <<device, dev, hidden>>]_vars

\* the private state could not be allocated: the handle has been freed
C8_Witness ==
    /\ lastOp = "CreateDevice"
    /\ ret = RetPtr("device", NULL)
    /\ err = ErrOutOfMemory
    /\ Len(heap) = 1
    /\ heap[1].kind = "device"
    /\ heap[1].frees = 1

\* C9: no block is freed twice by SPICE_SetVideoMode and SPICE_VideoQuit in
\* a run that follows the lifecycle order.
C9_NoDoubleFree == \A b \in DOMAIN heap : heap[b].frees <= 1

\* C10: between operations hidden->buffer and the surface's pixel pointer are
\* NULL or refer to an allocated block, the same one when neither is NULL.
C10_NoDangling ==
    phase \in {"inited", "quit"} =>
       /\ hidden.buffer = NULL \/ IsLive(heap, hidden.buffer)
       /\ screen.pixels = NULL \/ IsLive(heap, screen.pixels)
       /\ (hidden.buffer # NULL /\ screen.pixels # NULL) =>
             hidden.buffer = screen.pixels

====
